---- MODULE Spec2Model ----
(***************************************************************************)
(* Label table of the MIPS assembler (src/src/LabelTable.c) and the pass-1 *)
(* driver that fills it.  The table is a heap block of LabelEntry slots    *)
(* plus the fields capacity and nbrLabels; a label is stored as the        *)
(* char * the caller passed, so the caller's buffers are part of the       *)
(* state.  Every malloc/strdup may fail; a store or read outside the       *)
(* block the table owns is undefined behaviour and is modelled as a        *)
(* choice between the process dying and the access hitting the memory      *)
(* that follows the block.                                                 *)
(***************************************************************************)
EXTENDS Integers, Sequences, FiniteSets, TLC

\* ------------------------------------------------------------------ bounds
MaxLabels == 3      \* addLabel is not called once nbrLabels reaches this
MaxSize   == 2      \* largest newSize a caller passes to tableResize
MaxLines  == 3      \* longest input program given to pass1

\* ------------------------------------------------------- program constants
SAME   == 0
ERROR0 == "Error: no label table exists.\n"
ERROR1 == "Error: a duplicate label was found.\n"
ERROR2 == "Error: cannot allocate space in memory.\n"

\* ------------------------------------------------------------ input domains
NULL     == "NULL"
TABLE    == "&table"
Handles  == {NULL, TABLE}              \* values of a LabelTable * argument
Buffers  == {"inst", "inst2", "inst3"} \* caller-owned char buffers
Names    == {"A_LABEL", "B_LABEL"}     \* label texts
Tokens   == Names                      \* texts the caller writes and looks up
Addrs    == {0, 4}                     \* instruction addresses (PC values)
Idx      == 0 .. (MaxLabels - 1)       \* slot indexes the code can touch

HEAP   == "heap"                       \* a non-null LabelEntry *
NONE   == "-"

Uninit == [label |-> NONE, address |-> -1]   \* a slot never written
Fresh  == [i \in Idx |-> Uninit]             \* a block just malloc'ed

Min(a, b) == IF a < b THEN a ELSE b

VARIABLES
  table,      \* the LabelTable struct: capacity, nbrLabels, entries (pointer)
  block,      \* the memory at table.entries: size (slots owned) and slots
  buf,        \* contents of the caller's buffers
  call,       \* the last call made: operation, arguments, result, messages
  crashed,    \* the process was killed by an invalid memory access
  input,      \* pass1: the lines of the input file
  lineNum,    \* pass1: number of lines processed
  currentPC,  \* pass1: program counter
  phase       \* "api" | "pass1" | "aborted"

vars == <<table, block, buf, call, crashed, input, lineNum, currentPC, phase>>

\* outcome: "value" (ret is the value returned), "void", or "killed" (the
\* call never returned).
Call(op, h, b, name, pc, size, r) ==
  [op |-> op, h |-> h, label |-> b, name |-> name, PC |-> pc, newSize |-> size,
   outcome |-> IF op = "tableInit" THEN "void" ELSE "value",
   ret |-> r.ret, msgs |-> r.msgs, allocs |-> r.allocs]

Killed(op, h, b, name, pc, size) ==
  [op |-> op, h |-> h, label |-> b, name |-> name, PC |-> pc, newSize |-> size,
   outcome |-> "killed", ret |-> 0, msgs |-> <<>>, allocs |-> <<>>]

\* --------------------------------------------------------- LabelTable.c
\* strcmp(a, b) == SAME
strcmp(a, b) == IF a = b THEN SAME ELSE 1

\* verifyTableExists without its null test.
verifyTableExists_unchecked(h) == [ok |-> TRUE, msgs |-> <<>>]

verifyTableExists(h) ==
  IF h = NULL THEN [ok |-> FALSE, msgs |-> <<ERROR0>>]
              ELSE [ok |-> TRUE,  msgs |-> <<>>]

\* Result of a call: the struct and the memory at entries afterwards, the
\* value returned, the messages printed, the outcome of each allocation
\* requested, whether a slot outside the block was accessed (ub) and whether
\* a null pointer was dereferenced (trap).  After ub the call either dies or
\* goes on with the memory that follows the block; a store through a null
\* entries pointer always dies (address 0 is not mapped in a hosted process).
Result(t, blk, ret, msgs, allocs, ub, trap) ==
  [table |-> t, block |-> blk, ret |-> ret, msgs |-> msgs,
   allocs |-> allocs, ub |-> ub, trap |-> trap]

NoBlock == [size |-> 0, slots |-> Fresh]     \* what a null entries points to

tableInit(t, blk, h, mallocOK) ==
  LET v == verifyTableExists(h) IN
  IF ~v.ok
    THEN Result(t, blk, 0, v.msgs \o <<ERROR0>>, <<>>, FALSE, FALSE)
    ELSE Result([capacity  |-> 0,
                 entries   |-> IF mallocOK THEN HEAP ELSE NULL,
                 nbrLabels |-> 0],
                IF mallocOK THEN [size |-> 1, slots |-> Fresh] ELSE NoBlock,
                0, v.msgs, <<mallocOK>>, FALSE, FALSE)

\* The slots the loop of findLabel compares equal to label.
Matches(t, blk, bufs, name) ==
  {i \in 0 .. (t.nbrLabels - 1) : strcmp(bufs[blk.slots[i].label], name) = SAME}

First(S) == CHOOSE i \in S : \A j \in S : i <= j

\* reads: number of slots the loop examined.
findLabel(t, blk, bufs, h, name) ==
  LET v == verifyTableExists(h) IN
  IF ~v.ok
    THEN [ret |-> -1, msgs |-> v.msgs, reads |-> 0]
    ELSE LET m == Matches(t, blk, bufs, name) IN
         IF m # {}
           THEN [ret |-> blk.slots[First(m)].address, msgs |-> v.msgs,
                 reads |-> First(m) + 1]
           ELSE [ret |-> -1, msgs |-> v.msgs, reads |-> t.nbrLabels]

\* tableResize without  table->nbrLabels = smaller;
tableResize_keepCount(t, blk, h, newSize, mallocOK) ==
  LET v == verifyTableExists(h) IN
  IF ~v.ok
    THEN Result(t, blk, 0, v.msgs, <<>>, FALSE, FALSE)
  ELSE IF ~mallocOK
    THEN Result(t, blk, 0, <<ERROR2>>, <<FALSE>>, FALSE, FALSE)
  ELSE IF t.entries # NULL
    THEN LET smaller == Min(t.nbrLabels, newSize) IN
         Result([capacity |-> newSize, entries |-> HEAP,
                 nbrLabels |-> t.nbrLabels],
                [size  |-> newSize,
                 slots |-> [i \in Idx |->
                             IF i < smaller THEN blk.slots[i] ELSE Uninit]],
                1, <<>>, <<TRUE>>, smaller > blk.size, FALSE)
    ELSE Result([capacity |-> newSize, entries |-> HEAP,
                 nbrLabels |-> t.nbrLabels],
                [size |-> newSize, slots |-> Fresh],
                1, <<>>, <<TRUE>>, FALSE, FALSE)

\* tableResize that sets  table->capacity = newSize  before the malloc.
tableResize_earlyCapacity(t, blk, h, newSize, mallocOK) ==
  LET v == verifyTableExists(h) IN
  IF ~v.ok
    THEN Result(t, blk, 0, v.msgs, <<>>, FALSE, FALSE)
  ELSE IF ~mallocOK
    THEN Result([t EXCEPT !.capacity = newSize], blk, 0, <<ERROR2>>,
                <<FALSE>>, FALSE, FALSE)
  ELSE IF t.entries # NULL
    THEN LET smaller == Min(t.nbrLabels, newSize) IN
         Result([capacity |-> newSize, entries |-> HEAP, nbrLabels |-> smaller],
                [size  |-> newSize,
                 slots |-> [i \in Idx |->
                             IF i < smaller THEN blk.slots[i] ELSE Uninit]],
                1, <<>>, <<TRUE>>, smaller > blk.size, FALSE)
    ELSE Result([capacity |-> newSize, entries |-> HEAP,
                 nbrLabels |-> t.nbrLabels],
                [size |-> newSize, slots |-> Fresh],
                1, <<>>, <<TRUE>>, FALSE, FALSE)

tableResize(t, blk, h, newSize, mallocOK) ==
  LET v == verifyTableExists(h) IN
  IF ~v.ok
    THEN Result(t, blk, 0, v.msgs, <<>>, FALSE, FALSE)
  ELSE IF ~mallocOK
    THEN Result(t, blk, 0, <<ERROR2>>, <<FALSE>>, FALSE, FALSE)
  ELSE IF t.entries # NULL
    THEN LET smaller == Min(t.nbrLabels, newSize) IN
         Result([capacity |-> newSize, entries |-> HEAP, nbrLabels |-> smaller],
                [size  |-> newSize,
                 slots |-> [i \in Idx |->
                             IF i < smaller THEN blk.slots[i] ELSE Uninit]],
                1, <<>>, <<TRUE>>, smaller > blk.size, FALSE)
    ELSE Result([capacity |-> newSize, entries |-> HEAP,
                 nbrLabels |-> t.nbrLabels],
                [size |-> newSize, slots |-> Fresh],
                1, <<>>, <<TRUE>>, FALSE, FALSE)

addLabel(t, blk, bufs, h, label, PC, strdupOK, mallocOK) ==
  LET v == verifyTableExists(h) IN
  IF ~v.ok
    THEN Result(t, blk, 0, v.msgs, <<>>, FALSE, FALSE)
  ELSE IF ~strdupOK
    THEN Result(t, blk, 0, <<ERROR1>>, <<FALSE>>, FALSE, FALSE)
  ELSE LET f == findLabel(t, blk, bufs, h, bufs[label]) IN
  IF f.ret # -1
    THEN Result(t, blk, 1, <<ERROR2>>, <<TRUE>>, f.reads > blk.size, FALSE)
  ELSE LET grow == t.nbrLabels >= t.capacity
           r    == IF grow
                     THEN tableResize(t, blk, h, 2 * (t.nbrLabels + 1), mallocOK)
                     ELSE Result(t, blk, 1, <<>>, <<>>, FALSE, FALSE)
           t2   == r.table
           n    == t2.nbrLabels
       IN  IF t2.entries = NULL
             THEN Result(t2, r.block, 1, r.msgs, <<TRUE>> \o r.allocs,
                         FALSE, TRUE)
             ELSE Result([t2 EXCEPT !.nbrLabels = n + 1],
                         [r.block EXCEPT !.slots[n] =
                                           [label |-> label, address |-> PC]],
                         1, r.msgs, <<TRUE>> \o r.allocs,
                         f.reads > blk.size \/ r.ub \/ n >= r.block.size, FALSE)

\* ------------------------------------------------------------- the calls
NoPass1 == UNCHANGED <<input, lineNum, currentPC, phase>>

Returns(r, c) ==
  /\ ~r.trap
  /\ table' = r.table
  /\ block' = r.block
  /\ call' = c
  /\ UNCHANGED <<buf, crashed>>

Dies(r, c) ==
  /\ r.ub \/ r.trap
  /\ crashed' = TRUE
  /\ call' = c
  /\ UNCHANGED <<table, block, buf>>

TableInit(h, mallocOK) ==
  /\ phase = "api" /\ ~crashed
  /\ LET r == tableInit(table, block, h, mallocOK) IN
       Returns(r, Call("tableInit", h, NONE, NONE, 0, 0, r))
  /\ NoPass1

FindLabel(h, name) ==
  /\ phase = "api" /\ ~crashed
  /\ LET f == findLabel(table, block, buf, h, name)
         r == Result(table, block, f.ret, f.msgs, <<>>,
                     f.reads > block.size, FALSE)
     IN  \/ Returns(r, Call("findLabel", h, NONE, name, 0, 0, r))
         \/ Dies(r, Killed("findLabel", h, NONE, name, 0, 0))
  /\ NoPass1

AddLabel(h, label, PC, strdupOK, mallocOK) ==
  /\ phase = "api" /\ ~crashed
  /\ table.nbrLabels < MaxLabels
  /\ LET r == addLabel(table, block, buf, h, label, PC, strdupOK, mallocOK)
     IN  \/ Returns(r, Call("addLabel", h, label, buf[label], PC, 0, r))
         \/ Dies(r, Killed("addLabel", h, label, buf[label], PC, 0))
  /\ NoPass1

TableResize(h, newSize, mallocOK) ==
  /\ phase = "api" /\ ~crashed
  /\ LET r == tableResize(table, block, h, newSize, mallocOK)
     IN  \/ Returns(r, Call("tableResize", h, NONE, NONE, 0, newSize, r))
         \/ Dies(r, Killed("tableResize", h, NONE, NONE, 0, newSize))
  /\ NoPass1

\* The caller reuses one of its buffers (it reads the next line into it).
OverwriteBuffer(b, text) ==
  /\ phase = "api" /\ ~crashed
  /\ buf[b] # text
  /\ buf' = [buf EXCEPT ![b] = text]
  /\ call' = [op |-> "overwrite", h |-> NONE, label |-> b, name |-> text,
              PC |-> 0, newSize |-> 0, outcome |-> "void", ret |-> 0,
              msgs |-> <<>>, allocs |-> <<>>]
  /\ UNCHANGED <<table, block, crashed>>
  /\ NoPass1

\* The state after  LabelTable table; tableInit(&table);
Init ==
  /\ \E mallocOK \in BOOLEAN :
       LET r == tableInit([capacity |-> 0, entries |-> NULL, nbrLabels |-> 0],
                          NoBlock, TABLE, mallocOK)
       IN  /\ table = r.table
           /\ block = r.block
           /\ call = Call("tableInit", TABLE, NONE, NONE, 0, 0, r)
  /\ buf \in [Buffers -> Tokens]
  /\ crashed = FALSE
  /\ input = <<>>
  /\ lineNum = 0
  /\ currentPC = 0
  /\ phase = "api"

Next ==
  \/ \E h \in Handles, ok \in BOOLEAN : TableInit(h, ok)
  \/ \E h \in Handles, name \in Tokens : FindLabel(h, name)
  \/ \E h \in Handles, b \in Buffers, pc \in Addrs, s \in BOOLEAN, m \in BOOLEAN :
       AddLabel(h, b, pc, s, m)
  \/ \E h \in Handles, n \in 0 .. MaxSize, ok \in BOOLEAN : TableResize(h, n, ok)
  \/ \E b \in Buffers, text \in Tokens : OverwriteBuffer(b, text)

Spec == Init /\ [][Next]_vars

\* ------------------------------------------------------------------ pass1
\* A line of the input: blank, comment-only, or an instruction with an
\* optional leading "label:" and an optional label among its operands.
Lines ==
  {[kind |-> k, label |-> NONE, ref |-> NONE] : k \in {"blank", "comment"}}
    \cup
  {[kind |-> "instr", label |-> l, ref |-> r] :
     l \in Names \cup {NONE}, r \in {NONE, "A_LABEL"}}

Programs == UNION {[1 .. n -> Lines] : n \in 1 .. MaxLines}

Labelled(line) == line.kind = "instr" /\ line.label # NONE

\* The first token of the line as the tokenizer leaves it in the buffer.
FirstToken(line) ==
  IF Labelled(line) THEN line.label
  ELSE IF line.kind = "instr" THEN "add"
  ELSE IF line.kind = "comment" THEN "#"
  ELSE ""

\* Number of instruction-bearing lines among lines 1..i of prog.
InstrCount(prog, i) == Cardinality({j \in 1 .. i : prog[j].kind = "instr"})

\* pass1 reads the next line into one of its buffers; the line starts with
\* "label:", so it calls addLabel(&table, token, currentPC) and then advances
\* the program counter.  A fatal result stops the pass.
Pass1Labelled(b, strdupOK, mallocOK) ==
  /\ phase = "pass1" /\ ~crashed
  /\ lineNum < Len(input)
  /\ table.nbrLabels < MaxLabels
  /\ Labelled(input[lineNum + 1])
  /\ LET line == input[lineNum + 1]
         bufs == [buf EXCEPT ![b] = FirstToken(line)]
         r    == addLabel(table, block, bufs, TABLE, b, currentPC,
                          strdupOK, mallocOK)
     IN  \/ /\ ~r.trap
            /\ table' = r.table
            /\ block' = r.block
            /\ buf' = bufs
            /\ call' = Call("addLabel", TABLE, b, bufs[b], currentPC, 0, r)
            /\ phase' = IF r.ret = 0 THEN "aborted" ELSE "pass1"
            /\ lineNum' = IF r.ret = 0 THEN lineNum ELSE lineNum + 1
            /\ currentPC' = IF r.ret = 0 THEN currentPC ELSE currentPC + 4
            /\ UNCHANGED <<crashed, input>>
         \/ /\ r.ub \/ r.trap
            /\ crashed' = TRUE
            /\ buf' = bufs
            /\ call' = Killed("addLabel", TABLE, b, bufs[b], currentPC, 0)
            /\ UNCHANGED <<table, block, input, lineNum, currentPC, phase>>

\* A line without a leading label: only the program counter may move.
Pass1Plain(b) ==
  /\ phase = "pass1" /\ ~crashed
  /\ lineNum < Len(input)
  /\ ~Labelled(input[lineNum + 1])
  /\ LET line == input[lineNum + 1] IN
       /\ buf' = [buf EXCEPT ![b] = FirstToken(line)]
       /\ currentPC' = IF line.kind = "instr" THEN currentPC + 4 ELSE currentPC
       /\ call' = [op |-> "readline", h |-> NONE, label |-> b,
                   name |-> FirstToken(line), PC |-> 0, newSize |-> 0,
                   outcome |-> "void", ret |-> 0, msgs |-> <<>>,
                   allocs |-> <<>>]
  /\ lineNum' = lineNum + 1
  /\ UNCHANGED <<table, block, crashed, input, phase>>

\* pass1 has declared its table and called tableInit; nothing is read yet.
InitPass1 ==
  /\ \E mallocOK \in BOOLEAN :
       LET r == tableInit([capacity |-> 0, entries |-> NULL, nbrLabels |-> 0],
                          NoBlock, TABLE, mallocOK)
       IN  /\ table = r.table
           /\ block = r.block
           /\ call = Call("tableInit", TABLE, NONE, NONE, 0, 0, r)
  /\ buf = [b \in Buffers |-> ""]
  /\ crashed = FALSE
  /\ input \in Programs
  /\ lineNum = 0
  /\ currentPC = 0
  /\ phase = "pass1"

NextPass1 ==
  \/ \E b \in Buffers, s \in BOOLEAN, m \in BOOLEAN : Pass1Labelled(b, s, m)
  \/ \E b \in Buffers : Pass1Plain(b)

SpecPass1 == InitPass1 /\ [][NextPass1]_vars

\* ----------------------------------------------------------------- claims
Has(msgs, e) == \E k \in 1 .. Len(msgs) : msgs[k] = e

\* The text the entry in slot i names: what strcmp reads through its label.
NameAt(blk, bufs, i) == bufs[blk.slots[i].label]

\* What findLabel(&table, name) returns in the given state.
Lookup(t, blk, bufs, name) == findLabel(t, blk, bufs, TABLE, name).ret

Unique(t, blk, bufs) ==
  \A i, j \in 0 .. (t.nbrLabels - 1) :
    i # j => NameAt(blk, bufs, i) # NameAt(blk, bufs, j)

\* The step just taken is a call of op on the real table that returned.
Returned(op) == call'.op = op /\ call'.h = TABLE /\ call'.outcome # "killed"

ApiOps == {"tableInit", "findLabel", "addLabel", "tableResize"}

\* C1 (Uniqueness): after every step the names of the entries below
\* nbrLabels are pairwise distinct, and an addLabel whose name is already
\* in the table leaves nbrLabels and every stored (name, address) pair as
\* they were.
C1_Uniqueness ==
  [][ /\ Unique(table', block', buf')
      /\ (Returned("addLabel") /\ Lookup(table, block, buf, call'.name) # -1)
           => /\ table'.nbrLabels = table.nbrLabels
              /\ \A i \in 0 .. (table.nbrLabels - 1) :
                   /\ NameAt(block', buf', i) = NameAt(block, buf, i)
                   /\ block'.slots[i].address = block.slots[i].address ]_vars

\* C2 (Lookup correctness): an addLabel of a new name that returns 1 makes
\* findLabel return the address supplied; while only addLabel, findLabel and
\* the caller's own buffer reuse happen, a name that findLabel finds keeps
\* its address, and a name not added stays not-found (-1).
C2_LookupCorrect ==
  [][ \A n \in Tokens :
        LET before == Lookup(table, block, buf, n)
            after  == Lookup(table', block', buf', n)
            adds   == Returned("addLabel") /\ call'.ret = 1 /\ call'.name = n
        IN  /\ (adds /\ before = -1) => after = call'.PC
            /\ (call'.op \in {"addLabel", "findLabel", "overwrite"}
                  /\ before # -1) => after = before
            /\ (call'.op \in {"addLabel", "findLabel", "overwrite"}
                  /\ before = -1 /\ ~adds) => after = -1 ]_vars

\* C3 (Capacity invariant): whenever the process is alive, capacity >=
\* nbrLabels and every index below nbrLabels is a slot of the block that
\* entries points to.
C3_CapacityInvariant ==
  ~crashed => /\ table.capacity >= table.nbrLabels
              /\ table.nbrLabels <= block.size

\* C4 (Resize preserves prefix): a tableResize(newSize) that returns 1 keeps
\* the first min(oldCount, newSize) entries (same label, same name text,
\* same address, same position), sets capacity to newSize, and sets
\* nbrLabels to newSize when newSize < oldCount and leaves it otherwise.
C4_ResizePreservesPrefix ==
  [][ (Returned("tableResize") /\ call'.ret = 1) =>
        LET newSize == call'.newSize
            kept    == Min(table.nbrLabels, newSize)
        IN  /\ \A i \in 0 .. (kept - 1) :
                 /\ block'.slots[i] = block.slots[i]
                 /\ NameAt(block', buf', i) = NameAt(block, buf, i)
            /\ table'.capacity = newSize
            /\ table'.nbrLabels = IF newSize < table.nbrLabels
                                    THEN newSize ELSE table.nbrLabels ]_vars

\* A successful resize has just acted on a table that still holds entries.
C4_Witness ==
  /\ call.op = "tableResize" /\ call.h = TABLE /\ call.outcome = "value"
  /\ call.ret = 1
  /\ table.nbrLabels >= 1
  /\ table.nbrLabels = call.newSize
  /\ table.capacity = call.newSize

\* C6 (Duplicate reporting): an addLabel of a name already in the table (no
\* allocation failing) prints the duplicate-label message, not the
\* allocation message, and returns 1; an addLabel in which an allocation
\* fails prints the allocation message, not the duplicate-label message,
\* and returns 0.
C6_ErrorKinds ==
  [][ Returned("addLabel") =>
        LET dup    == Lookup(table, block, buf, call'.name) # -1
            failed == \E k \in 1 .. Len(call'.allocs) : ~call'.allocs[k]
        IN  /\ (dup /\ ~failed) =>
                 /\ Has(call'.msgs, ERROR1) /\ ~Has(call'.msgs, ERROR2)
                 /\ call'.ret = 1
            /\ failed =>
                 /\ Has(call'.msgs, ERROR2) /\ ~Has(call'.msgs, ERROR1)
                 /\ call'.ret = 0 ]_vars

\* C7 (Allocation failure while growing): an addLabel of a new name on a
\* full table whose growth allocation fails returns 0, appends no entry and
\* leaves nbrLabels unchanged.
C7_GrowthFailure ==
  [][ ( /\ Returned("addLabel")
        /\ Lookup(table, block, buf, call'.name) = -1
        /\ table.nbrLabels >= table.capacity
        /\ call'.allocs = <<TRUE, FALSE>> )
      => /\ call'.ret = 0
         /\ table'.nbrLabels = table.nbrLabels
         /\ block' = block ]_vars

\* C8 (Missing table handle): a call of tableInit, findLabel, addLabel or
\* tableResize with a null handle prints the table-missing message and
\* nothing else, returns its failure result (findLabel -1, addLabel 0,
\* tableResize 0, tableInit nothing), requests no allocation and changes
\* neither the table, its block, the caller's buffers nor the process.
C8_NullHandle ==
  [][ (call'.op \in ApiOps /\ call'.h = NULL) =>
        /\ call'.msgs # <<>>
        /\ \A k \in 1 .. Len(call'.msgs) : call'.msgs[k] = ERROR0
        /\ call'.allocs = <<>>
        /\ call'.op = "tableInit" => call'.outcome = "void"
        /\ call'.op = "findLabel" => call'.outcome = "value" /\ call'.ret = -1
        /\ call'.op \in {"addLabel", "tableResize"} =>
             call'.outcome = "value" /\ call'.ret = 0
        /\ UNCHANGED <<table, block, buf, crashed>> ]_vars

\* tableInit was just called with a null handle while the table held labels.
C8_Witness ==
  /\ call.op = "tableInit" /\ call.h = NULL
  /\ table.nbrLabels >= 1
  /\ table.capacity >= 1

\* C9 (Name ownership): when the caller overwrites one of its buffers, no
\* stored entry changes its name and findLabel answers every name as before.
C9_NameOwnership ==
  [][ call'.op = "overwrite" =>
        /\ \A i \in 0 .. (table.nbrLabels - 1) :
             NameAt(block', buf', i) = NameAt(block, buf, i)
        /\ \A n \in Tokens :
             Lookup(table', block', buf', n) = Lookup(table, block, buf, n)
      ]_vars

\* C10 (Failed resize is atomic): a tableResize on a non-null table whose
\* malloc fails returns 0 and leaves the struct (entries pointer, nbrLabels,
\* capacity), the block and so every stored (name, address) pair unchanged.
C10_FailedResizeAtomic ==
  [][ (call'.op = "tableResize" /\ call'.h = TABLE
         /\ call'.allocs = <<FALSE>>) =>
        /\ call'.outcome = "value" /\ call'.ret = 0
        /\ UNCHANGED <<table, block, buf, crashed>> ]_vars

\* A tableResize whose malloc failed has just returned on a table with labels.
C10_Witness ==
  /\ call.op = "tableResize" /\ call.h = TABLE
  /\ call.allocs = <<FALSE>>
  /\ call.newSize > table.capacity
  /\ table.nbrLabels >= 1

\* pass1 has read its whole input and is still running.
Pass1Done == phase = "pass1" /\ ~crashed /\ lineNum = Len(input)

DistinctLabels(prog) ==
  \A i, j \in 1 .. Len(prog) :
    (Labelled(prog[i]) /\ Labelled(prog[j]) /\ i # j)
      => prog[i].label # prog[j].label

\* C5 (Pass 1 program counter): while pass1 runs, currentPC is 4 times the
\* number of instruction-bearing lines processed; and when it has processed
\* an input whose leading labels are pairwise distinct, the table holds one
\* entry per leading label, findLabel gives each the address of the
\* instruction on its line, and finds no other label.
C5_Pass1 ==
  /\ phase = "pass1" => currentPC = 4 * InstrCount(input, lineNum)
  /\ (Pass1Done /\ DistinctLabels(input)) =>
       LET defs == {j \in 1 .. Len(input) : Labelled(input[j])} IN
       /\ table.nbrLabels = Cardinality(defs)
       /\ \A j \in defs :
            Lookup(table, block, buf, input[j].label)
              = 4 * InstrCount(input, j - 1)
       /\ \A n \in Names :
            (\A j \in defs : input[j].label # n)
              => Lookup(table, block, buf, n) = -1

====
